---- MODULE Spec2Model ----
(***************************************************************************)
(* Model of gui/fetch_launcher_assets.py: one invocation of main() as a    *)
(* sequential process over a filesystem and a network whose answers are    *)
(* nondeterministic, and repeated invocations on the same output directory *)
(* and configuration.                                                      *)
(*                                                                         *)
(* Strings are sequences of one-character strings, so that rstrip, join,   *)
(* dirname and URL concatenation are computed as the library computes them.*)
(* The filesystem is a function from canonical paths (sequences of         *)
(* component names, <<>> being the root) to nodes.                         *)
(***************************************************************************)
EXTENDS Integers, Sequences, FiniteSets, TLC

\* ------------------------------------------------------------------ bounds
MaxAssets == 3      \* longest asset list in a configuration
MaxSlashes == 1     \* most trailing slashes on a configured base URL
MaxRuns == 2        \* invocations on the same output directory

\* ----------------------------------------------------------------- strings
Slashes(n) == [k \in 1..n |-> "/"]

\* str.rstrip('/') with only one trailing slash removed
RStripOne(s) ==
    IF s # <<>> /\ s[Len(s)] = "/" THEN SubSeq(s, 1, Len(s) - 1) ELSE s

\* str.rstrip('/')
RECURSIVE RStrip(_)
RStrip(s) ==
    IF s # <<>> /\ s[Len(s)] = "/" THEN RStrip(SubSeq(s, 1, Len(s) - 1)) ELSE s

\* str.rfind('/') + 1 : the length of the prefix that ends at the last slash
RECURSIVE RFindSlash(_)
RFindSlash(s) ==
    IF s = <<>> THEN 0
    ELSE IF s[Len(s)] = "/" THEN Len(s)
    ELSE RFindSlash(SubSeq(s, 1, Len(s) - 1))

\* str.split('/')
RECURSIVE Split(_)
Split(s) ==
    IF s = <<>> THEN << <<>> >>
    ELSE LET rest == Split(Tail(s)) IN
         IF Head(s) = "/" THEN << <<>> >> \o rest
         ELSE << <<Head(s)>> \o Head(rest) >> \o Tail(rest)

\* posixpath.join(a, b)
Join(a, b) ==
    IF b # <<>> /\ b[1] = "/" THEN b
    ELSE IF a = <<>> \/ a[Len(a)] = "/" THEN a \o b
    ELSE a \o <<"/">> \o b

\* posixpath.dirname(p)
Dirname(p) ==
    LET head == SubSeq(p, 1, RFindSlash(p)) IN
    IF head # <<>> /\ head # Slashes(Len(head)) THEN RStrip(head) ELSE head

\* ------------------------------------------------------------- filesystem
DirNode == [kind |-> "dir", data |-> <<>>]
FileNode(d) == [kind |-> "file", data |-> d]
Root == <<>>
Parent(path) == IF path = <<>> THEN <<>> ELSE SubSeq(path, 1, Len(path) - 1)
IsDir(f, path) == path \in DOMAIN f /\ f[path].kind = "dir"

\* Path resolution as the kernel does it for an absolute path without
\* symbolic links: every component but the last must name a directory.
RECURSIVE Lookup(_, _, _)
Lookup(f, comps, cur) ==
    IF comps = <<>> THEN [ok |-> TRUE, path |-> cur]
    ELSE IF ~IsDir(f, cur) THEN [ok |-> FALSE, path |-> cur]
    ELSE LET c == Head(comps) IN
         IF c = <<>> \/ c = <<".">> THEN Lookup(f, Tail(comps), cur)
         ELSE IF c = <<".", ".">> THEN Lookup(f, Tail(comps), Parent(cur))
         ELSE Lookup(f, Tail(comps), Append(cur, c))

Resolve(f, p) == Lookup(f, Split(p), Root)

\* os.path.exists(p)
Exists(f, p) == LET r == Resolve(f, p) IN r.ok /\ r.path \in DOMAIN f

\* os.makedirs(p, exist_ok=True): creates the missing directories along p;
\* raises when a component is a file.  Directories made before the failing
\* component stay.
RECURSIVE MakeDirsFrom(_, _, _)
MakeDirsFrom(f, comps, cur) ==
    IF comps = <<>> THEN [ok |-> TRUE, fs |-> f]
    ELSE LET c == Head(comps) IN
         IF c = <<>> \/ c = <<".">> THEN MakeDirsFrom(f, Tail(comps), cur)
         ELSE IF c = <<".", ".">> THEN MakeDirsFrom(f, Tail(comps), Parent(cur))
         ELSE LET t == Append(cur, c) IN
              IF t \notin DOMAIN f
              THEN MakeDirsFrom([q \in DOMAIN f \cup {t} |->
                                   IF q = t THEN DirNode ELSE f[q]],
                                Tail(comps), t)
              ELSE IF f[t].kind = "dir" THEN MakeDirsFrom(f, Tail(comps), t)
              ELSE [ok |-> FALSE, fs |-> f]

MakeDirs(f, p) == MakeDirsFrom(f, Split(p), Root)

\* ------------------------------------------------------------ Python values
PyNone == [t |-> "none", v |-> <<>>]
PyStr(s) == [t |-> "str", v |-> s]
PyList(l) == [t |-> "list", v |-> l]
PyInt == [t |-> "int", v |-> <<>>]

\* dict.get(key, default)
Get(obj, key, default) == IF key \in DOMAIN obj THEN obj[key] ELSE default

\* truth value of a str, list or None
Truthy(x) == x.t # "none" /\ x.v # <<>>

\* isinstance(x, list)
IsList(x) == x.t = "list"

\* the validation accepting an empty base URL
InvalidConfigNoneOnly(b, a) == b.t = "none" \/ ~IsList(a)

\* not base_url or not isinstance(assets, list)
InvalidConfig(b, a) == ~Truthy(b) \/ ~IsList(a)

\* --------------------------------------------------------------- downloads
Outcomes == {"ok", "neterr", "writeerr"}

\* the body the server sends for url
Body(url) == <<"body">> \o url

PrimaryUrl(b, asset) == RStrip(b) \o <<"/">> \o asset
FallbackUrl(b, asset) == RStrip(b) \o <<"/", "e", "n", "/">> \o asset

\* only a network error counts as a failed attempt
RaisedNetOnly(o) == o = "neterr"

\* download_asset raised
Raised(o) == o # "ok"

\* a failed fallback that is swallowed
FatalNever(o) == FALSE

\* the fallback attempt raised: sys.exit(1)
Fatal(o) == Raised(o)

\* download although the file is there
ShouldDownloadAlways(f, dest) == TRUE

\* if not os.path.exists(dest_path)
ShouldDownload(f, dest) == ~Exists(f, dest)

WriteFile(f, dest, d) ==
    LET r == Resolve(f, dest) IN
    IF r.ok /\ IsDir(f, Parent(r.path)) /\ ~IsDir(f, r.path)
    THEN [q \in DOMAIN f \cup {r.path} |-> IF q = r.path THEN FileNode(d) ELSE f[q]]
    ELSE f

\* download_asset that writes nothing
DownloadAssetNowhere(f, url, dest, o) == f

\* download_asset(url, dest_path) with the outcome o:
\*   neterr    urlopen, read or open raises, nothing is created
\*   writeerr  open created or truncated the file, f.write raises
\*   ok        the body is written
DownloadAsset(f, url, dest, o) ==
    CASE o = "ok" -> WriteFile(f, dest, Body(url))
      [] o = "writeerr" -> WriteFile(f, dest, <<"partial">>)
      [] OTHER -> f

\* ------------------------------------------------------------------ inputs
OutputDir == <<"/", "o">>

AssetNames ==
    { <<"a">>, <<"d", "/", "a">>, <<".", ".", "/", "x">> }

RECURSIVE SeqsUpTo(_, _)
SeqsUpTo(S, n) ==
    IF n = 0 THEN { <<>> }
    ELSE LET shorter == SeqsUpTo(S, n - 1) IN
         shorter \cup { Append(s, x) : s \in shorter, x \in S }

BaseUrlStem == <<"h", "/", "b">>
BaseUrls == { BaseUrlStem \o Slashes(k) : k \in 0..MaxSlashes }

UrlValues == {PyNone, PyStr(<<>>)} \cup { PyStr(u) : u \in BaseUrls }
AssetsValues ==
    {PyNone, PyStr(<<"a">>), PyInt} \cup { PyList(l) : l \in SeqsUpTo(AssetNames, MaxAssets) }

KeyUrl == "public_launcher_assets_url"
KeyAssets == "public_launcher_assets"

\* the JSON objects a configuration file can hold
ConfigObjects ==
    { [k \in {KeyUrl, KeyAssets} |-> IF k = KeyUrl THEN u ELSE a] :
        u \in UrlValues, a \in AssetsValues }
    \cup { [k \in {KeyUrl} |-> u] : u \in UrlValues }
    \cup { [k \in {KeyAssets} |-> a] : a \in AssetsValues }

Unreadable == [loads |-> FALSE, obj |-> [k \in {} |-> PyNone]]
Configs == {Unreadable} \cup { [loads |-> TRUE, obj |-> o] : o \in ConfigObjects }

P(names) == [k \in 1..Len(names) |-> <<names[k]>>]

Fs(dirs, files) ==
    [q \in {Root} \cup dirs \cup DOMAIN files |->
        IF q \in DOMAIN files THEN FileNode(files[q]) ELSE DirNode]

\* the filesystems a first invocation can find
InitialFilesystems ==
    { Fs({}, [q \in {} |-> <<>>]),
      Fs({P(<<"o">>)}, [q \in {P(<<"o", "a">>)} |-> <<"old">>]),
      Fs({P(<<"o">>)}, [q \in {P(<<"o", "d">>)} |-> <<"old">>]) }

\* ------------------------------------------------------------------- state
VARIABLES
    fs,          \* the filesystem
    argc,        \* len(sys.argv)
    config,      \* what the file at config_path holds
    pc,          \* position of main()
    base_url,    \* local of main()
    assets,      \* local of main()
    i,           \* 1-based position of the loop in assets
    exit_code,   \* -1 while running
    printed,     \* the completion line was printed
    run,         \* number of this invocation
    requests,    \* the GET requests of this invocation, in order
    fs_start,    \* the filesystem when this invocation started
    parsed,      \* json.load returned
    attempted,   \* positions whose processing began in this invocation
    skipped,     \* positions the loop passed without downloading
    seen,        \* what os.path.exists found for each position it was asked about
    written,     \* positions downloaded in this invocation, with the node written
    fail_pos,    \* position whose fallback attempt failed, 0 if none
    prev         \* how the previous invocation ended

vars == << fs, argc, config, pc, base_url, assets, i, exit_code, printed,
           run, requests, fs_start, parsed, attempted, skipped, seen, written,
           fail_pos, prev >>

NoPrev == [exit |-> -1, fail_pos |-> 0, downloaded |-> FALSE]

Fresh ==
    /\ pc = "start"
    /\ base_url = PyNone
    /\ assets = PyList(<<>>)
    /\ i = 1
    /\ exit_code = -1
    /\ printed = FALSE
    /\ requests = <<>>
    /\ parsed = FALSE
    /\ attempted = {}
    /\ skipped = {}
    /\ seen = {}
    /\ written = {}
    /\ fail_pos = 0

Init ==
    /\ fs \in InitialFilesystems
    /\ \/ argc = 2 /\ config = Unreadable
       \/ argc = 3 /\ config \in Configs
    /\ run = 1
    /\ fs_start = fs
    /\ prev = NoPrev
    /\ Fresh

Asset(k) == assets.v[k]
Dest(k) == Join(OutputDir, Asset(k))

Exit(code) ==
    /\ pc' = "done"
    /\ exit_code' = code

\* ------------------------------------------------------------------ main()
\* lines 25-30
CheckArgs ==
    /\ pc = "start"
    /\ IF argc # 3 THEN Exit(1) ELSE pc' = "outdir" /\ UNCHANGED exit_code
    /\ UNCHANGED << fs, argc, config, base_url, assets, i, printed, run,
                    requests, fs_start, parsed, attempted, skipped, seen, written,
                    fail_pos, prev >>

\* lines 33-38
EnsureOutputDir ==
    /\ pc = "outdir"
    /\ IF Exists(fs, OutputDir)
       THEN pc' = "load" /\ UNCHANGED << fs, exit_code >>
       ELSE \E made \in BOOLEAN :
              IF made /\ MakeDirs(fs, OutputDir).ok
              THEN fs' = MakeDirs(fs, OutputDir).fs /\ pc' = "load" /\ UNCHANGED exit_code
              ELSE Exit(1) /\ UNCHANGED fs
    /\ UNCHANGED << argc, config, base_url, assets, i, printed, run,
                    requests, fs_start, parsed, attempted, skipped, seen, written,
                    fail_pos, prev >>

\* lines 41-46
LoadConfig ==
    /\ pc = "load"
    /\ IF config.loads
       THEN pc' = "validate" /\ parsed' = TRUE /\ UNCHANGED exit_code
       ELSE Exit(1) /\ UNCHANGED parsed
    /\ UNCHANGED << fs, argc, config, base_url, assets, i, printed, run,
                    requests, fs_start, attempted, skipped, seen, written, fail_pos, prev >>

\* lines 48-52
ValidateConfig ==
    /\ pc = "validate"
    /\ base_url' = Get(config.obj, KeyUrl, PyNone)
    /\ assets' = Get(config.obj, KeyAssets, PyList(<<>>))
    /\ IF InvalidConfig(base_url', assets')
       THEN Exit(1)
       ELSE pc' = "loop" /\ UNCHANGED exit_code
    /\ UNCHANGED << fs, argc, config, i, printed, run, requests, fs_start,
                    parsed, attempted, skipped, seen, written, fail_pos, prev >>

\* lines 55-60: the next asset, its destination, its directories and the
\* existence check
BeginAsset ==
    /\ pc = "loop"
    /\ i <= Len(assets.v)
    /\ attempted' = attempted \cup {i}
    /\ LET md == MakeDirs(fs, Dirname(Dest(i)))
           r == Resolve(md.fs, Dest(i)) IN
         /\ fs' = md.fs
         /\ IF ~md.ok
            THEN Exit(1) /\ UNCHANGED << i, skipped, seen >>
            ELSE /\ seen' = seen \cup
                      {[pos |-> i, existed |-> Exists(md.fs, Dest(i)), path |-> r.path,
                        node |-> IF Exists(md.fs, Dest(i)) THEN md.fs[r.path]
                                 ELSE DirNode]}
                 /\ IF ShouldDownload(md.fs, Dest(i))
                    THEN pc' = "primary" /\ UNCHANGED << i, skipped >>
                    ELSE pc' = "loop" /\ i' = i + 1 /\ skipped' = skipped \cup {i}
                 /\ UNCHANGED exit_code
    /\ UNCHANGED << argc, config, base_url, assets, printed, run, requests,
                    fs_start, parsed, written, fail_pos, prev >>

\* lines 61-66
PrimaryAttempt ==
    /\ pc = "primary"
    /\ \E o \in Outcomes :
         LET url == PrimaryUrl(base_url.v, Asset(i))
             nfs == DownloadAsset(fs, url, Dest(i), o) IN
         /\ requests' = Append(requests, [pos |-> i, kind |-> "primary",
                                          url |-> url, failed |-> o # "ok"])
         /\ fs' = nfs
         /\ IF Raised(o)
            THEN pc' = "fallback" /\ UNCHANGED << i, written >>
            ELSE /\ pc' = "loop"
                 /\ i' = i + 1
                 /\ written' = written \cup
                        {[pos |-> i, path |-> Resolve(nfs, Dest(i)).path,
                          data |-> Body(url)]}
    /\ UNCHANGED << argc, config, base_url, assets, exit_code, printed, run,
                    fs_start, parsed, attempted, skipped, seen, fail_pos, prev >>

\* lines 67-74
FallbackAttempt ==
    /\ pc = "fallback"
    /\ \E o \in Outcomes :
         LET url == FallbackUrl(base_url.v, Asset(i))
             nfs == DownloadAsset(fs, url, Dest(i), o) IN
         /\ requests' = Append(requests, [pos |-> i, kind |-> "fallback",
                                          url |-> url, failed |-> o # "ok"])
         /\ fs' = nfs
         /\ IF Fatal(o)
            THEN Exit(1) /\ fail_pos' = i /\ UNCHANGED << i, written >>
            ELSE /\ pc' = "loop"
                 /\ i' = i + 1
                 /\ written' = IF o # "ok" THEN written ELSE written \cup
                        {[pos |-> i, path |-> Resolve(nfs, Dest(i)).path,
                          data |-> Body(url)]}
                 /\ UNCHANGED << exit_code, fail_pos >>
    /\ UNCHANGED << argc, config, base_url, assets, printed, run,
                    fs_start, parsed, attempted, skipped, seen, prev >>

\* line 76 and the normal return of main()
Finish ==
    /\ pc = "loop"
    /\ i > Len(assets.v)
    /\ printed' = TRUE
    /\ Exit(0)
    /\ UNCHANGED << fs, argc, config, base_url, assets, i, run, requests,
                    fs_start, parsed, attempted, skipped, seen, written, fail_pos, prev >>

\* the program is invoked again with the same arguments, on the filesystem
\* the previous invocation left
NextRun ==
    /\ pc = "done"
    /\ run < MaxRuns
    /\ run' = run + 1
    /\ prev' = [exit |-> exit_code, fail_pos |-> fail_pos,
                downloaded |-> written # {}]
    /\ fs_start' = fs
    /\ pc' = "start"
    /\ base_url' = PyNone
    /\ assets' = PyList(<<>>)
    /\ i' = 1
    /\ exit_code' = -1
    /\ printed' = FALSE
    /\ requests' = <<>>
    /\ parsed' = FALSE
    /\ attempted' = {}
    /\ skipped' = {}
    /\ seen' = {}
    /\ written' = {}
    /\ fail_pos' = 0
    /\ UNCHANGED << fs, argc, config >>

Next ==
    \/ CheckArgs
    \/ EnsureOutputDir
    \/ LoadConfig
    \/ ValidateConfig
    \/ BeginAsset
    \/ PrimaryAttempt
    \/ FallbackAttempt
    \/ Finish
    \/ NextRun

Spec == Init /\ [][Next]_vars

\* ------------------------------------------------------------- properties
Terminated == pc = "done"
Positions == 1..Len(assets.v)
ReqIdx(k, kind) ==
    { n \in 1..Len(requests) : requests[n].pos = k /\ requests[n].kind = kind }
ReqFor(k) == { n \in 1..Len(requests) : requests[n].pos = k }
Present == { s \in seen : s.existed }
Absent == { s \in seen : ~s.existed }

\* the canonical path of the output directory
OutPath == SelectSeq(Split(OutputDir), LAMBDA c : c # <<>>)
UnderOutputDir(q) ==
    Len(q) >= Len(OutPath) /\ SubSeq(q, 1, Len(OutPath)) = OutPath

UrlAbsentOrEmpty ==
    KeyUrl \notin DOMAIN config.obj \/ config.obj[KeyUrl].v = <<>>
AssetsAbsent == KeyAssets \notin DOMAIN config.obj
AssetsNotList ==
    KeyAssets \in DOMAIN config.obj /\ config.obj[KeyAssets].t # "list"

\* C1: an asset whose local path exists when the loop reaches it gets no GET
\* request in this run, neither primary nor fallback, and the node at its
\* path stays what it was.
C1_SkipCorrectness ==
    \A s \in Present :
        /\ ReqFor(s.pos) = {}
        /\ s.path \in DOMAIN fs
        /\ fs[s.path] = s.node

\* C1 witness: a finished run that found an old file in place and also
\* downloaded another asset.
C1_Witness ==
    /\ Terminated
    /\ exit_code = 0
    /\ requests # <<>>
    /\ \E s \in Present : s.node = FileNode(<<"old">>) /\ fs[s.path] = FileNode(<<"old">>)

C3_FallbackOrdering ==
    /\ \A s \in Absent :
          \/ pc = "primary" /\ i = s.pos
          \/ Cardinality(ReqIdx(s.pos, "primary")) = 1
    /\ \A n \in 1..Len(requests) :
          LET r == requests[n] IN
          /\ Cardinality(ReqIdx(r.pos, r.kind)) = 1
          /\ \E s \in Absent : s.pos = r.pos
          /\ r.kind = "primary" =>
                /\ r.url = BaseUrlStem \o <<"/">> \o assets.v[r.pos]
                /\ r.failed =>
                      \/ pc = "fallback" /\ i = r.pos /\ n = Len(requests)
                      \/ /\ n < Len(requests)
                         /\ requests[n + 1].pos = r.pos
                         /\ requests[n + 1].kind = "fallback"
          /\ r.kind = "fallback" =>
                /\ r.url = BaseUrlStem \o <<"/", "e", "n", "/">> \o assets.v[r.pos]
                /\ n > 1
                /\ requests[n - 1].pos = r.pos
                /\ requests[n - 1].kind = "primary"
                /\ requests[n - 1].failed

\* C3 witness: a run that finished after a primary attempt failed and its
\* fallback attempt succeeded, and after another primary attempt succeeded
\* at once.
C3_Witness ==
    /\ Terminated
    /\ exit_code = 0
    /\ \E n \in 1..Len(requests) :
          /\ requests[n].kind = "fallback"
          /\ ~requests[n].failed
          /\ requests[n - 1].failed
    /\ \E n \in 1..Len(requests) :
          /\ requests[n].kind = "primary"
          /\ ~requests[n].failed

\* the fallback attempt of position k was made and failed
FallbackFailed(k) ==
    \E n \in ReqIdx(k, "fallback") : requests[n].failed

\* C4: when the primary and the fallback attempt of an asset both failed, the
\* run has exit code 1 and nothing exists at the asset's local path.
C4_NoFileOnDoubleFailure ==
    \A k \in Positions :
        (Terminated /\ FallbackFailed(k)) =>
            /\ exit_code = 1
            /\ ~Exists(fs, Dest(k))

\* C5: an invocation that follows a successful one, on the same output
\* directory and configuration, issues no GET request (so it does not depend
\* on any request succeeding) and ends with exit code 0.
C5_Idempotence ==
    (run > 1 /\ prev.exit = 0) =>
        /\ requests = <<>>
        /\ Terminated => (exit_code = 0 /\ printed)

\* C5 witness: a second invocation that ended in success after a first one
\* that downloaded something.
C5_Witness ==
    /\ run = 2
    /\ prev.exit = 0
    /\ prev.downloaded
    /\ Terminated
    /\ exit_code = 0
    /\ assets.v # <<>>

\* C6: exit code 0 and the completion line go together and only with every
\* listed asset existing at its local path, found there by the existence
\* check or written there by a successful attempt; every other ending has
\* exit code 1 and no completion line.
C6_SuccessMeansAllPresent ==
    /\ printed <=> (Terminated /\ exit_code = 0)
    /\ Terminated => exit_code \in {0, 1}
    /\ (Terminated /\ exit_code = 0) =>
          \A k \in Positions :
              /\ Exists(fs, Dest(k))
              /\ \/ \E s \in Present : s.pos = k
                 \/ \E n \in ReqFor(k) :
                       /\ ~requests[n].failed
                       /\ fs[Resolve(fs, Dest(k)).path] = FileNode(Body(requests[n].url))

\* C6 witness: a successful run over three assets of which one was in place
\* and one came from the fallback URL.
C6_Witness ==
    /\ Terminated
    /\ exit_code = 0
    /\ printed
    /\ Len(assets.v) = 3
    /\ Present # {}
    /\ \E n \in 1..Len(requests) :
          requests[n].kind = "fallback" /\ ~requests[n].failed

\* C7: a run only adds nodes below the output directory and leaves every
\* node that was there when it started as it was.
C7_ConfinedSideEffects ==
    /\ \A q \in DOMAIN fs : q \notin DOMAIN fs_start => UnderOutputDir(q)
    /\ \A q \in DOMAIN fs_start : q \in DOMAIN fs /\ fs[q] = fs_start[q]

\* the base URLs that differ from the stem only by trailing slashes
SlashVariants == { BaseUrlStem \o Slashes(k) : k \in 0..(MaxSlashes + 1) }

\* C8: the URL of every request is the one every configuration whose base
\* URL differs only by trailing slashes produces for that asset.
C8_TrailingSlash ==
    \A n \in 1..Len(requests) :
        \A u \in SlashVariants :
            LET r == requests[n] IN
            r.url = IF r.kind = "primary" THEN PrimaryUrl(u, assets.v[r.pos])
                    ELSE FallbackUrl(u, assets.v[r.pos])

\* C8 witness: a run configured with a base URL that ends in a slash has
\* requested a primary and a fallback URL.
C8_Witness ==
    /\ requests # <<>>
    /\ base_url.v # BaseUrlStem
    /\ base_url.v[Len(base_url.v)] = "/"
    /\ \E n \in 1..Len(requests) : requests[n].kind = "primary"
    /\ \E n \in 1..Len(requests) : requests[n].kind = "fallback"

\* C9: positions are taken in list order, one at a time; once the fallback
\* attempt of position k has failed the run is over with exit code 1, that
\* request is the last, no later position was begun, checked or requested,
\* and every file an earlier position wrote is on disk as written.
C9_AbortAtFirstFatal ==
    /\ \A k \in attempted : k <= i /\ \A j \in 1..k : j \in attempted
    /\ \A n \in 1..Len(requests) : \A m \in 1..n : requests[m].pos <= requests[n].pos
    /\ \A k \in Positions :
          FallbackFailed(k) =>
              /\ Terminated
              /\ exit_code = 1
              /\ requests[Len(requests)].pos = k
              /\ requests[Len(requests)].kind = "fallback"
              /\ attempted = 1..k
              /\ \A s \in seen : s.pos <= k
              /\ \A w \in written :
                    /\ w.pos < k
                    /\ w.path \in DOMAIN fs
                    /\ fs[w.path] = FileNode(w.data)

\* C9 witness: the second of three assets failed twice after the first was
\* downloaded.
C9_Witness ==
    /\ Terminated
    /\ Len(assets.v) = 3
    /\ FallbackFailed(2)
    /\ \E w \in written : w.pos = 1 /\ fs[w.path] = FileNode(w.data)

\* C10: an invocation that follows one aborted by the double failure of
\* position k passes every position before k without a request, and its
\* first GET request is to the primary URL of position k.
C10_Resumability ==
    (run > 1 /\ prev.fail_pos # 0) =>
        /\ requests # <<>> =>
              /\ requests[1].pos = prev.fail_pos
              /\ requests[1].kind = "primary"
        /\ Terminated =>
              /\ requests # <<>>
              /\ \A k \in 1..(prev.fail_pos - 1) : k \in skipped

====
